---- MODULE Spec2Model ----
(***************************************************************************)
(* Model of src/src/slideshow_maker/slideshow.py: the slide-count planner  *)
(* (calculate_slides_needed), the image selector (select_images) and the   *)
(* orchestrator (create_slideshow_with_audio).                             *)
(*                                                                         *)
(* Durations are exact multiples of 1/TicksPerSecond seconds, so that the  *)
(* Python expression int(a / ((mn + mx) / 2)) is the exact quotient        *)
(* (2*a) \div (mn + mx) for the non-negative values modelled here.         *)
(* The image catalog returned by find_images is a sorted list of distinct  *)
(* paths; it is modelled as <<1, 2, ..., n>>.                              *)
(***************************************************************************)
EXTENDS Integers, Sequences, FiniteSets, TLC

VARIABLES
    image_dir_exists,  \* os.path.exists(image_dir)
    test_mode,         \* argument test_mode
    dry_run,           \* argument dry_run
    min_duration,      \* argument min_duration, in ticks
    max_duration,      \* argument max_duration, in ticks
    disk_audio,        \* number of audio files audio.find_audio_files will find
    disk_seconds,      \* what audio.get_total_audio_duration will return, in ticks
    disk_images,       \* what find_images will return
    files,             \* which of the output files exist
    pc,                \* position in create_slideshow_with_audio
    audio_files,       \* local: number of audio files found
    audio_duration,    \* local, in ticks
    all_images,        \* local
    slides_needed,     \* local
    images,            \* local of the orchestrator / of select_images
    remaining,         \* select_images local
    i,                 \* select_images loop index
    calls,             \* how many times each collaborator was invoked
    status,            \* outcome of merge / render / combine: "none", "ok", "fail"
    removed,           \* the paths handed to os.remove
    result,            \* "none", "True", "False" or the exception raised
    diagnostic         \* the failure message printed before return False

vars == <<image_dir_exists, test_mode, dry_run, min_duration, max_duration,
          disk_audio, disk_seconds, disk_images, files, pc, audio_files,
          audio_duration, all_images, slides_needed, images, remaining, i,
          calls, status, removed, result, diagnostic>>

----------------------------------------------------------------------------
(* Bounds of the model *)

TicksPerSecond == 100
MaxImages == 3
MaxAudioFiles == 2

(* Program constants *)

MAX_SLIDES_LIMIT == 1000
TEST_DURATION == 60

AUDIO_OUTPUT == "AUDIO_OUTPUT"
VIDEO_OUTPUT == "VIDEO_OUTPUT"
FINAL_OUTPUT == "FINAL_OUTPUT"

Seconds(s) == s * TicksPerSecond

(* Inputs of the orchestrator runs: <<min, max>> in ticks, audio in ticks. *)
RunRanges ==
    { <<0, 0>>,
      <<Seconds(3), Seconds(3)>>,
      <<Seconds(3), Seconds(7)>>,
      <<Seconds(20), Seconds(20)>>,
      <<Seconds(30), Seconds(30)>>,
      <<Seconds(100), Seconds(100)>> }

RunAudioSeconds == { 0, Seconds(6), Seconds(15), Seconds(20) }

(* Inputs of the planner alone: they include sub-second ranges and audio *)
(* long enough to pass the cap.                                          *)
PlanDurations == { 0, 1, 5, Seconds(2), Seconds(3), Seconds(4), Seconds(7) }

PlanRanges == { r \in PlanDurations \X PlanDurations : r[1] <= r[2] }

PlanAudioSeconds ==
    { 0, 1, Seconds(5) - 1, Seconds(5), Seconds(100), Seconds(5000) - 1,
      Seconds(5000), Seconds(5005), Seconds(100000) }

Catalog(n) == [k \in 1..n |-> k]

Min(a, b) == IF a <= b THEN a ELSE b
Max(a, b) == IF a >= b THEN a ELSE b

Range(s) == { s[k] : k \in 1..Len(s) }

----------------------------------------------------------------------------
(* calculate_slides_needed *)

(* (min_duration + max_duration) / 2, kept as its double to stay integral *)
TwiceAverage(mn, mx) == mn + mx

IntQuotient_NoHalf(num, twiceAvg) == num \div twiceAvg

(* int(num / avg) for num, avg >= 0 and avg = twiceAvg / 2 *)
IntQuotient(num, twiceAvg) == (2 * num) \div twiceAvg

Clamp_None(n) == n

(* The Full-mode cap *)
Clamp(n) == IF n > MAX_SLIDES_LIMIT THEN MAX_SLIDES_LIMIT ELSE n

(* [raised |-> the call raised ZeroDivisionError, value |-> the return value] *)
calculate_slides_needed(duration, mn, mx, tm) ==
    IF TwiceAverage(mn, mx) = 0
    THEN [raised |-> TRUE, value |-> 0]
    ELSE IF tm
         THEN [raised |-> FALSE,
               value |-> IntQuotient(Seconds(TEST_DURATION), TwiceAverage(mn, mx))]
         ELSE [raised |-> FALSE,
               value |-> Clamp(IntQuotient(duration, TwiceAverage(mn, mx)))]

----------------------------------------------------------------------------
(* select_images *)

Slice_Last(s, n) ==
    [k \in 1..(IF n >= Len(s) THEN Len(s) ELSE n) |->
        s[Len(s) - (IF n >= Len(s) THEN Len(s) ELSE n) + k]]

(* all_images[:n] for n >= 0 *)
Slice(s, n) == [k \in 1..(IF n >= Len(s) THEN Len(s) ELSE n) |-> s[k]]

Remaining_OffByOne(s, n) == n - Len(s) - 1

(* remaining = slides_needed - len(images) *)
Remaining(s, n) == n - Len(s)

Choices_OffByOne(s) == { s[k] + 1 : k \in 1..Len(s) }

(* random.choice(all_images): any element *)
Choices(s) == Range(s)

----------------------------------------------------------------------------
ZeroCalls ==
    [find_audio |-> 0, duration |-> 0, find_images |-> 0, plan |-> 0,
     select |-> 0, merge |-> 0, render |-> 0, combine |-> 0, remove |-> 0]

NoStatus == [merge |-> "none", render |-> "none", combine |-> "none"]

Called(c) == [calls EXCEPT ![c] = @ + 1]

Locals0 ==
    /\ audio_files = 0
    /\ audio_duration = 0
    /\ all_images = <<>>
    /\ slides_needed = 0
    /\ images = <<>>
    /\ remaining = 0
    /\ i = 0
    /\ calls = ZeroCalls
    /\ status = NoStatus
    /\ removed = {}
    /\ result = "none"
    /\ diagnostic = ""

Init ==
    /\ image_dir_exists \in BOOLEAN
    /\ test_mode \in BOOLEAN
    /\ dry_run \in BOOLEAN
    /\ \E r \in RunRanges : min_duration = r[1] /\ max_duration = r[2]
    /\ disk_audio \in 0..MaxAudioFiles
    /\ disk_seconds \in RunAudioSeconds
    /\ \E n \in 0..MaxImages : disk_images = Catalog(n)
    /\ files \in SUBSET {AUDIO_OUTPUT, VIDEO_OUTPUT}
    /\ pc = "CheckDir"
    /\ Locals0

Inputs == <<image_dir_exists, test_mode, dry_run, min_duration, max_duration,
            disk_audio, disk_seconds, disk_images>>

Return(value, message) ==
    /\ pc' = "Done"
    /\ result' = value
    /\ diagnostic' = message

(* "return False" after a failed delegation stage (lines 168-169, 176-177, *)
(* 182-183); next is where control would go had the stage succeeded       *)
Fail_Continue(message, next) ==
    /\ pc' = next
    /\ UNCHANGED <<result, diagnostic>>

Fail(message, next) == Return("False", message)

(* lines 86-96: the directory check and the dry-run branch *)
CheckDir ==
    /\ pc = "CheckDir"
    /\ IF ~image_dir_exists
       THEN Return("False", "DirectoryNotFound")
       ELSE /\ pc' = (IF dry_run THEN "DryFindAudio" ELSE "FindAudio")
            /\ UNCHANGED <<result, diagnostic>>
    /\ UNCHANGED <<Inputs, files, audio_files, audio_duration, all_images,
                   slides_needed, images, remaining, i, calls, status, removed>>

(* lines 101-106 *)
DryFindAudio ==
    /\ pc = "DryFindAudio"
    /\ audio_files' = disk_audio
    /\ calls' = Called("find_audio")
    /\ IF disk_audio = 0
       THEN Return("False", "NoAudioFound")
       ELSE pc' = "DryPlan" /\ UNCHANGED <<result, diagnostic>>
    /\ UNCHANGED <<Inputs, files, audio_duration, all_images, slides_needed,
                   images, remaining, i, status, removed>>

(* lines 110-134 *)
DryPlan ==
    /\ pc = "DryPlan"
    /\ audio_duration' = disk_seconds
    /\ all_images' = disk_images
    /\ calls' = [calls EXCEPT !.duration = @ + 1, !.find_images = @ + 1,
                              !.plan = @ + 1]
    /\ LET r == calculate_slides_needed(disk_seconds, min_duration,
                                        max_duration, test_mode)
       IN IF r.raised
          THEN /\ Return("ZeroDivisionError", "")
               /\ UNCHANGED slides_needed
          ELSE /\ slides_needed' = r.value
               /\ Return("True", "")
    /\ UNCHANGED <<Inputs, files, audio_files, images, remaining, i, status,
                   removed>>

(* lines 136-147 *)
FindAudio ==
    /\ pc = "FindAudio"
    /\ audio_files' = disk_audio
    /\ calls' = Called("find_audio")
    /\ IF disk_audio = 0
       THEN Return("False", "NoAudioFound")
       ELSE pc' = "Plan" /\ UNCHANGED <<result, diagnostic>>
    /\ UNCHANGED <<Inputs, files, audio_duration, all_images, slides_needed,
                   images, remaining, i, status, removed>>

(* lines 150-157 *)
Plan ==
    /\ pc = "Plan"
    /\ audio_duration' = disk_seconds
    /\ all_images' = disk_images
    /\ calls' = [calls EXCEPT !.duration = @ + 1, !.find_images = @ + 1,
                              !.plan = @ + 1]
    /\ LET r == calculate_slides_needed(disk_seconds, min_duration,
                                        max_duration, test_mode)
       IN IF r.raised
          THEN /\ Return("ZeroDivisionError", "")
               /\ UNCHANGED slides_needed
          ELSE /\ slides_needed' = r.value
               /\ pc' = "Select"
               /\ UNCHANGED <<result, diagnostic>>
    /\ UNCHANGED <<Inputs, files, audio_files, images, remaining, i, status,
                   removed>>

(* line 160 and select_images lines 55-67, 78-79 *)
Select ==
    /\ pc = "Select"
    /\ calls' = Called("select")
    /\ i' = 0
    /\ IF Len(all_images) = 0
       THEN /\ images' = <<>>
            /\ remaining' = 0
            /\ pc' = "ProcessAudio"
       ELSE IF test_mode
            THEN /\ images' = Slice(all_images, slides_needed)
                 /\ remaining' = 0
                 /\ pc' = "ProcessAudio"
            ELSE /\ images' = all_images
                 /\ remaining' = Remaining(all_images, slides_needed)
                 /\ pc' = (IF Remaining(all_images, slides_needed) > 0
                           THEN "SelectLoop" ELSE "ProcessAudio")
    /\ UNCHANGED <<Inputs, files, audio_files, audio_duration, all_images,
                   slides_needed, status, removed, result, diagnostic>>

(* select_images lines 69-71: one iteration of the repeat loop *)
SelectLoop ==
    /\ pc = "SelectLoop"
    /\ i < remaining
    /\ \E img \in Choices(all_images) : images' = Append(images, img)
    /\ i' = i + 1
    /\ pc' = (IF i + 1 < remaining THEN "SelectLoop" ELSE "ProcessAudio")
    /\ UNCHANGED <<Inputs, files, audio_files, audio_duration, all_images,
                   slides_needed, remaining, calls, status, removed, result,
                   diagnostic>>

(* lines 165-171 *)
ProcessAudio ==
    /\ pc = "ProcessAudio"
    /\ IF AUDIO_OUTPUT \notin files
       THEN \E ok \in BOOLEAN :
              /\ calls' = Called("merge")
              /\ status' = [status EXCEPT !.merge = IF ok THEN "ok" ELSE "fail"]
              /\ IF ok
                 THEN /\ files' = files \cup {AUDIO_OUTPUT}
                      /\ pc' = "CreateSlideshow"
                      /\ UNCHANGED <<result, diagnostic>>
                 ELSE /\ Fail("AudioMergeFailed", "CreateSlideshow")
                      /\ UNCHANGED files
       ELSE /\ pc' = "CreateSlideshow"
            /\ UNCHANGED <<calls, status, files, result, diagnostic>>
    /\ UNCHANGED <<Inputs, audio_files, audio_duration, all_images,
                   slides_needed, images, remaining, i, removed>>

(* lines 175-177 *)
CreateSlideshow ==
    /\ pc = "CreateSlideshow"
    /\ calls' = Called("render")
    /\ \E ok \in BOOLEAN :
         /\ status' = [status EXCEPT !.render = IF ok THEN "ok" ELSE "fail"]
         /\ IF ok
            THEN /\ files' = files \cup {VIDEO_OUTPUT}
                 /\ pc' = "Combine"
                 /\ UNCHANGED <<result, diagnostic>>
            ELSE /\ Fail("RenderFailed", "Combine")
                 /\ UNCHANGED files
    /\ UNCHANGED <<Inputs, audio_files, audio_duration, all_images,
                   slides_needed, images, remaining, i, removed>>

(* lines 181-183 *)
Combine ==
    /\ pc = "Combine"
    /\ calls' = Called("combine")
    /\ \E ok \in BOOLEAN :
         /\ status' = [status EXCEPT !.combine = IF ok THEN "ok" ELSE "fail"]
         /\ IF ok
            THEN /\ files' = files \cup {FINAL_OUTPUT}
                 /\ pc' = "Cleanup"
                 /\ UNCHANGED <<result, diagnostic>>
            ELSE /\ Fail("CombineFailed", "Cleanup")
                 /\ UNCHANGED files
    /\ UNCHANGED <<Inputs, audio_files, audio_duration, all_images,
                   slides_needed, images, remaining, i, removed>>

CleanupTargets_Both == {VIDEO_OUTPUT, AUDIO_OUTPUT}

(* The paths Cleanup hands to os.remove (line 188; line 191 keeps the audio) *)
CleanupTargets == {VIDEO_OUTPUT}

(* lines 187-202: os.remove may succeed or raise; the except swallows it *)
Cleanup ==
    /\ pc = "Cleanup"
    /\ calls' = Called("remove")
    /\ removed' = removed \cup CleanupTargets
    /\ \E ok \in BOOLEAN :
         files' = (IF ok THEN files \ CleanupTargets ELSE files)
    /\ Return("True", "")
    /\ UNCHANGED <<Inputs, audio_files, audio_duration, all_images,
                   slides_needed, images, remaining, i, status>>

Next ==
    \/ CheckDir
    \/ DryFindAudio
    \/ DryPlan
    \/ FindAudio
    \/ Plan
    \/ Select
    \/ SelectLoop
    \/ ProcessAudio
    \/ CreateSlideshow
    \/ Combine
    \/ Cleanup

Spec == Init /\ [][Next]_vars

----------------------------------------------------------------------------
(* The planner on its own: calculate_slides_needed applied to drawn inputs *)

PlanInit ==
    /\ image_dir_exists = TRUE
    /\ test_mode \in BOOLEAN
    /\ dry_run = FALSE
    /\ \E r \in PlanRanges : min_duration = r[1] /\ max_duration = r[2]
    /\ disk_audio = 1
    /\ disk_seconds \in PlanAudioSeconds
    /\ disk_images = <<>>
    /\ files = {}
    /\ pc = "PlanCall"
    /\ Locals0

PlanCall ==
    /\ pc = "PlanCall"
    /\ audio_duration' = disk_seconds
    /\ calls' = Called("plan")
    /\ LET r == calculate_slides_needed(disk_seconds, min_duration,
                                        max_duration, test_mode)
       IN IF r.raised
          THEN /\ pc' = "PlanReturned"
               /\ result' = "ZeroDivisionError"
               /\ UNCHANGED slides_needed
          ELSE /\ slides_needed' = r.value
               /\ pc' = "PlanReturned"
               /\ result' = "returned"
    /\ UNCHANGED <<Inputs, files, audio_files, all_images, images, remaining,
                   i, status, removed, diagnostic>>

PlanNext == PlanCall

PlanSpec == PlanInit /\ [][PlanNext]_vars

----------------------------------------------------------------------------
(* Properties *)

(* select_images has returned to the orchestrator *)
SelectionDone == calls.select = 1 /\ pc # "SelectLoop"

(* calculate_slides_needed has returned a count in the planner-only runs *)
PlanReturned == pc = "PlanReturned" /\ result = "returned"

(* C1, as stated: for a non-empty catalog the selected sequence has exactly *)
(* the planned length; for an empty catalog it is empty.                    *)
C1_LengthEqualsPlan ==
    SelectionDone =>
        IF all_images # <<>>
        THEN Len(images) = slides_needed
        ELSE images = <<>>

(* C1, amended: for a non-empty catalog the selected sequence has length     *)
(* min(planned, catalog size) in Test mode and max(planned, catalog size) in *)
(* Full mode; for an empty catalog it is empty.                              *)
C1_LengthByMode ==
    SelectionDone =>
        IF all_images # <<>>
        THEN Len(images) = (IF test_mode
                            THEN Min(slides_needed, Len(all_images))
                            ELSE Max(slides_needed, Len(all_images)))
        ELSE images = <<>>

C1_Witness ==
    /\ SelectionDone
    /\ ~test_mode
    /\ all_images # <<>>
    /\ 0 < slides_needed
    /\ slides_needed < Len(all_images)
    /\ Len(images) = Len(all_images)

(* C2: in Full mode with a positive average the planner returns            *)
(* min(floor(audio / average), cap): r <= cap, r is the floor when r < cap, *)
(* and the floor is at least the cap when r = cap; range (3,7) with 100 s   *)
(* gives 20 and with 100000 s gives the cap.                                *)
C2_FullModeFloorClamped ==
    (pc = "PlanReturned" /\ ~test_mode /\ min_duration + max_duration > 0) =>
        LET r == slides_needed
            twice == min_duration + max_duration
        IN /\ result = "returned"
           /\ r >= 0
           /\ r <= MAX_SLIDES_LIMIT
           /\ r < MAX_SLIDES_LIMIT =>
                /\ r * twice <= 2 * audio_duration
                /\ 2 * audio_duration < (r + 1) * twice
           /\ r = MAX_SLIDES_LIMIT => MAX_SLIDES_LIMIT * twice <= 2 * audio_duration
           /\ (/\ min_duration = Seconds(3)
               /\ max_duration = Seconds(7)
               /\ audio_duration = Seconds(100)) => r = 20
           /\ (/\ min_duration = Seconds(3)
               /\ max_duration = Seconds(7)
               /\ audio_duration = Seconds(100000)) => r = MAX_SLIDES_LIMIT

C2_Witness ==
    /\ PlanReturned
    /\ ~test_mode
    /\ slides_needed = MAX_SLIDES_LIMIT
    /\ 2 * audio_duration >= (MAX_SLIDES_LIMIT + 1) * (min_duration + max_duration)

(* C3, as stated: for a range with positive min <= max the returned count *)
(* is >= 0 and <= the cap, in both modes.                                  *)
C3_AlwaysWithinCap ==
    (PlanReturned /\ 0 < min_duration /\ min_duration <= max_duration) =>
        /\ slides_needed >= 0
        /\ slides_needed <= MAX_SLIDES_LIMIT

(* C3, amended: the returned count is >= 0; in Full mode it is <= the cap;   *)
(* in Test mode it is floor(60 / average), unclamped, and so it is <= the    *)
(* cap exactly when 60 / average < cap + 1.                                  *)
C3_CapInFullModeOnly ==
    (PlanReturned /\ 0 < min_duration /\ min_duration <= max_duration) =>
        LET twice == min_duration + max_duration
            target == 2 * Seconds(TEST_DURATION)
        IN /\ slides_needed >= 0
           /\ ~test_mode => slides_needed <= MAX_SLIDES_LIMIT
           /\ test_mode =>
                /\ slides_needed * twice <= target
                /\ target < (slides_needed + 1) * twice
                /\ (slides_needed <= MAX_SLIDES_LIMIT)
                     <=> (target < (MAX_SLIDES_LIMIT + 1) * twice)

C3_Witness ==
    /\ PlanReturned
    /\ test_mode
    /\ 0 < min_duration
    /\ min_duration <= max_duration
    /\ slides_needed > MAX_SLIDES_LIMIT

(* C4: in Full mode, for a non-empty catalog and a planned count >= the     *)
(* catalog size, the selection has exactly the planned length, starts with  *)
(* the catalog in order, continues with members of the catalog, and so      *)
(* holds every catalog entry.                                               *)
C4_FullModeCoverage ==
    (/\ SelectionDone
     /\ ~test_mode
     /\ all_images # <<>>
     /\ slides_needed >= Len(all_images)) =>
        /\ Len(images) = slides_needed
        /\ \A k \in 1..Len(all_images) : images[k] = all_images[k]
        /\ \A k \in (Len(all_images) + 1)..Len(images) :
               \E j \in 1..Len(all_images) : images[k] = all_images[j]
        /\ \A j \in 1..Len(all_images) :
               \E k \in 1..Len(images) : images[k] = all_images[j]

C4_Witness ==
    /\ SelectionDone
    /\ ~test_mode
    /\ Len(all_images) >= 2
    /\ slides_needed >= Len(all_images) + 2
    /\ images[Len(images)] # images[Len(images) - 1]

(* C5: in Test mode the selection is the first min(planned, catalog size)  *)
(* catalog entries in catalog order, and no random draw is made.           *)
C5_TestModePrefix ==
    test_mode =>
        /\ pc # "SelectLoop"
        /\ i = 0
        /\ SelectionDone =>
             /\ Len(images) = Min(slides_needed, Len(all_images))
             /\ \A k \in 1..Len(images) : images[k] = all_images[k]

C5_Witness ==
    /\ test_mode
    /\ SelectionDone
    /\ 0 < slides_needed
    /\ slides_needed < Len(all_images)
    /\ Len(images) = slides_needed

(* C6: with audio duration 0 in Full mode the planned count is 0 and the *)
(* selection handed to the renderer is empty, for any catalog.           *)
C6_ZeroAudioEmptySelection ==
    (~test_mode /\ disk_seconds = 0 /\ SelectionDone) =>
        /\ slides_needed = 0
        /\ images = <<>>

(* C7: with a range of average 0 the planner fails with InvalidDurationRange *)
(* and the run ends Failed, never in an arithmetic fault.                    *)
C7_InvalidRangeFailsFast ==
    (min_duration + max_duration = 0 /\ calls.plan > 0) =>
        /\ result = "False"
        /\ diagnostic = "InvalidDurationRange"

(* C8: a dry run never invokes selection, merge, render, combine or file  *)
(* deletion; it succeeds whenever the directory exists and an audio file  *)
(* is found, and fails only for a missing directory or no audio file.     *)
C8_DryRunOutcome ==
    dry_run =>
        /\ calls.select = 0
        /\ calls.merge = 0
        /\ calls.render = 0
        /\ calls.combine = 0
        /\ calls.remove = 0
        /\ pc = "Done" =>
             /\ (image_dir_exists /\ disk_audio > 0) => result = "True"
             /\ result # "True" =>
                  /\ result = "False"
                  /\ ~image_dir_exists \/ disk_audio = 0

(* C9: a non-dry run invokes merge, render and combine at most once each;  *)
(* a failed stage ends the run in failure with no later collaborator and   *)
(* no Cleanup; combine follows a successful render and success follows a   *)
(* successful combine.                                                     *)
C9_FailStop ==
    ~dry_run =>
        /\ calls.merge <= 1 /\ calls.render <= 1 /\ calls.combine <= 1
        /\ (~image_dir_exists /\ pc # "CheckDir") =>
             /\ pc = "Done" /\ result = "False"
             /\ calls = ZeroCalls
        /\ (calls.find_audio > 0 /\ audio_files = 0) =>
             /\ pc = "Done" /\ result = "False"
             /\ calls = [ZeroCalls EXCEPT !.find_audio = 1]
        /\ status.merge = "fail" =>
             /\ pc = "Done" /\ result = "False"
             /\ calls.render = 0 /\ calls.combine = 0 /\ calls.remove = 0
        /\ status.render = "fail" =>
             /\ pc = "Done" /\ result = "False"
             /\ calls.combine = 0 /\ calls.remove = 0
        /\ status.combine = "fail" =>
             /\ pc = "Done" /\ result = "False"
             /\ calls.remove = 0
        /\ calls.combine > 0 => status.render = "ok"
        /\ result = "True" => status.combine = "ok"

C9_Witness ==
    /\ ~dry_run
    /\ pc = "Done"
    /\ status.merge = "ok"
    /\ status.render = "fail"
    /\ result = "False"

(* C10: the merged audio file is never deleted: no step removes it from the *)
(* file system, Cleanup runs only after a successful combine and hands only *)
(* the video-only output to os.remove, and the run then ends in success     *)
(* whether or not the deletion worked.                                      *)
C10_AudioKept ==
    /\ [](/\ removed \subseteq {VIDEO_OUTPUT}
          /\ calls.remove <= 1
          /\ calls.remove > 0 =>
               /\ status.combine = "ok"
               /\ pc = "Done"
               /\ result = "True"
               /\ AUDIO_OUTPUT \in files)
    /\ [][(AUDIO_OUTPUT \in files) => (AUDIO_OUTPUT \in files')]_vars

C10_Witness ==
    /\ calls.remove = 1
    /\ VIDEO_OUTPUT \in files
    /\ AUDIO_OUTPUT \in files
    /\ result = "True"

====
